---- MODULE Spec2Model ----
(***************************************************************************)
(* Model of ttresults.py: classification of spreadsheet entries into       *)
(* gender/age cohorts (create_riders), detection of the number of events   *)
(* completed (events_completed), per-cohort SQL tables with their deletes  *)
(* (create_sql_tables), the fixed-width tables (create_html_tables) and    *)
(* the page (create_html), run in the order of main().                     *)
(*                                                                         *)
(* A Python str / SQL text value is a tuple of one-character strings;      *)
(* Python None / SQL NULL is the value None below.                         *)
(***************************************************************************)
EXTENDS Integers, Sequences, FiniteSets, TLC

\* ------------------------------------------------------------------------
\* Text
\* ------------------------------------------------------------------------

\* Python None, SQL NULL: no text (every text is a tuple of one-character strings)
None == <<"None">>

\* The characters of the model's texts, in ascending order of their byte value
Ascii ==
    << " ", "#", "-", ".", "/",
       "0", "1", "2", "3", "4", "5", "6", "7", "8", "9", ":",
       "A", "B", "C", "D", "E", "F", "G", "H", "I", "J", "K", "L", "M",
       "N", "O", "P", "Q", "R", "S", "T", "U", "V", "W", "X", "Y", "Z",
       "_",
       "a", "b", "c", "d", "e", "f", "g", "h", "i", "j", "k", "l", "m",
       "n", "o", "p", "q", "r", "s", "t", "u", "v", "w", "x", "y", "z" >>

Chars == {Ascii[n] : n \in 1..Len(Ascii)}

\* rank of a character in byte order
Ord == [c \in Chars |-> CHOOSE n \in 1..Len(Ascii) : Ascii[n] = c]

Digits == {"0", "1", "2", "3", "4", "5", "6", "7", "8", "9"}

DigitVal(c) == Ord[c] - Ord["0"]

\* a < b for two texts, byte by byte, a proper prefix being smaller (memcmp order)
RECURSIVE StrLT(_, _)
StrLT(a, b) ==
    IF b = <<>> THEN FALSE
    ELSE IF a = <<>> THEN TRUE
    ELSE IF Head(a) = Head(b) THEN StrLT(Tail(a), Tail(b))
    ELSE Ord[Head(a)] < Ord[Head(b)]

\* Python truth value of a text or None
Truthy(v) == v # None /\ v # <<>>

\* Python "sub in s"
Contains(sub, s) ==
    \E p \in 1..(Len(s) - Len(sub) + 1) : SubSeq(s, p, p + Len(sub) - 1) = sub

\* Python s.startswith(c)
StartsWith(s, c) == Len(s) >= Len(c) /\ SubSeq(s, 1, Len(c)) = c

\* Python s.replace(old, new) for a one-character old
Replace(s, old, new) == [p \in 1..Len(s) |-> IF s[p] = old THEN new ELSE s[p]]

\* Python s.split(sep) for a one-character sep: the pieces, in order
RECURSIVE Split(_, _)
Split(s, sep) ==
    IF \A p \in 1..Len(s) : s[p] # sep THEN <<s>>
    ELSE LET p == CHOOSE q \in 1..Len(s) :
                      s[q] = sep /\ \A r \in 1..(q - 1) : s[r] # sep
         IN  <<SubSeq(s, 1, p - 1)>> \o Split(SubSeq(s, p + 1, Len(s)), sep)

\* whether Python int(s) returns (an optional sign, then digits) or raises ValueError
IsIntLiteral(s) ==
    LET body == IF s # <<>> /\ s[1] \in {"-", "+"} THEN Tail(s) ELSE s
    IN  body # <<>> /\ \A p \in 1..Len(body) : body[p] \in Digits

RECURSIVE DecimalValue(_)
DecimalValue(s) ==
    IF s = <<>> THEN 0
    ELSE 10 * DecimalValue(SubSeq(s, 1, Len(s) - 1)) + DigitVal(s[Len(s)])

\* Python int(s) where it returns
IntOf(s) ==
    IF s[1] = "-" THEN 0 - DecimalValue(Tail(s))
    ELSE IF s[1] = "+" THEN DecimalValue(Tail(s))
    ELSE DecimalValue(s)

\* Python "%s" % n for an integer n >= 0
RECURSIVE IntStr(_)
IntStr(n) ==
    IF n < 10 THEN <<Ascii[Ord["0"] + n]>>
    ELSE IntStr(n \div 10) \o <<Ascii[Ord["0"] + (n % 10)]>>

\* Python "%s" % v for a text or None
Str(v) == IF v = None THEN <<"N", "o", "n", "e">> ELSE v

Spaces(n) == [p \in 1..n |-> " "]

\* Python "%-ws" % s: left-justified in w columns, never cut
LJust(s, w) == IF Len(s) >= w THEN s ELSE s \o Spaces(w - Len(s))

\* Python 2 str.center(width): the left margin takes the odd space when the
\* margin and the width are both odd
Center(s, width) ==
    LET marg == width - Len(s)
        left == (marg \div 2) + (IF marg % 2 = 1 /\ width % 2 = 1 THEN 1 ELSE 0)
    IN  IF marg <= 0 THEN s ELSE Spaces(left) \o s \o Spaces(marg - left)

\* ------------------------------------------------------------------------
\* Module constants
\* ------------------------------------------------------------------------

HEADER ==
    << "2", "0", "1", "1", " ", "A", "B", "D", " ",
       "I", "N", "D", "O", "O", "R", " ", "T", "I", "M", "E", " ",
       "T", "R", "I", "A", "L", " ", "S", "E", "R", "I", "E", "S" >>

RESULT_KEYS ==
    { "age", "gender", "ridername", "city", "state", "club",
      "tt1results", "tt2results", "tt3results", "tt4results",
      "cumulative2", "cumulative3", "ttseriestotal" }

AGE_GROUPS ==
    << <<"1", "0", "-", "1", "4">>, <<"1", "5", "-", "1", "9">>,
       <<"2", "0", "-", "2", "4">>, <<"2", "5", "-", "2", "9">>,
       <<"3", "0", "-", "3", "4">>, <<"3", "5", "-", "3", "9">>,
       <<"4", "0", "-", "4", "4">>, <<"4", "5", "-", "4", "9">>,
       <<"5", "0", "-", "5", "4">>, <<"5", "5", "-", "5", "9">>,
       <<"6", "0", "-", "6", "4">>, <<"6", "5", "-", "6", "9">>,
       <<"7", "0", "-", "7", "4">>, <<"7", "5", "-", "7", "9">>,
       <<"8", "0", "-", "8", "4">>, <<"8", "5", "-", "8", "9">>,
       <<"9", "0", "-", "9", "4">>, <<"9", "5", "-", "9", "9">> >>

MEN == <<"M", "E", "N">>
WOMEN == <<"W", "O", "M", "E", "N">>

\* the header text of the spreadsheet's name column
RIDER_NAME == <<"R", "I", "D", "E", "R", " ", "N", "A", "M", "E">>

DNS == <<"D", "N", "S">>
DNF == <<"D", "N", "F">>

\* ------------------------------------------------------------------------
\* Input: the list feed of the spreadsheet
\* ------------------------------------------------------------------------

\* largest number of entries in the feed
MaxEntries == 2

NameA == <<"A">>
NameB == <<"B">>
\* a header row of the sheet: its name column holds the column title
NameHeader == RIDER_NAME \o <<"S">>

City == <<"E", "l", "y">>
State == <<"I", "L">>
Club == <<"A", "B", "D">>

T0900 == <<"0", "9", ":", "0", "0">>
T0930 == <<"0", "9", ":", "3", "0">>
T1000 == <<"1", "0", ":", "0", "0">>
\* a remark typed into a time cell
Remark == <<"n", "/", "a">>

Txt(a, b) == <<a, b>>

\* One row of the feed (entry.custom): every result column, and one column the
\* program does not use. tt is the tuple of the four stage times.
Entry(name, gender, age, tt, c2, c3, total) ==
    [key \in RESULT_KEYS \cup {"timestamp"} |->
        CASE key = "ridername" -> name
          [] key = "gender" -> gender
          [] key = "age" -> age
          [] key = "city" -> City
          [] key = "state" -> State
          [] key = "club" -> Club
          [] key = "tt1results" -> tt[1]
          [] key = "tt2results" -> tt[2]
          [] key = "tt3results" -> tt[3]
          [] key = "tt4results" -> tt[4]
          [] key = "cumulative2" -> c2
          [] key = "cumulative3" -> c3
          [] key = "ttseriestotal" -> total
          [] OTHER -> T0900]

\* a row whose column key is absent from the feed
Without(e, key) == [x \in DOMAIN e \ {key} |-> e[x]]

Stage1Only == <<T0900, None, None, None>>

\* Rows that differ in name, gender and age (one stage ridden by all)
ClassifyEntries ==
    LET E(n, g, a) == Entry(n, g, a, Stage1Only, None, None, None)
    IN  {E(NameA, <<"M">>, a) :
            a \in {None, <<"9">>, Txt("1", "0"), Txt("1", "4"), Txt("1", "5"),
                   Txt("9", "9"), <<"1", "0", "0">>, Txt("1", "x")}}
        \cup {E(NameA, <<"F">>, a) : a \in {Txt("1", "5"), Txt("1", "x")}}
        \cup {E(NameA, <<"X">>, Txt("1", "x")),
              E(None, <<"M">>, Txt("3", "2")),
              E(NameHeader, <<"M">>, Txt("3", "2")),
              Without(E(NameA, <<"M">>, Txt("3", "2")), "gender"),
              Without(E(NameA, <<"M">>, Txt("3", "2")), "age")}

\* Rows that differ in the stages ridden: any of the four for the men, the
\* first two for the women
ProgressEntries ==
    LET E(g, tt) == Entry(NameA, g, Txt("3", "2"), tt, None, None, None)
    IN  {E(<<"M">>, tt) : tt \in [1..4 -> {None, T0900}]}
        \cup {E(<<"F">>, <<T0900, T0900, None, None>>)}

\* Rows of one cohort that differ in name and in the values the ranking at
\* stage n reads
RankEntries(n) ==
    LET E(name, tt, c2, c3, total) ==
            Entry(name, <<"M">>, Txt("3", "2"), tt, c2, c3, total)
    IN  CASE n = 1 ->
               {E(NameA, <<q, None, None, None>>, None, None, None) :
                   q \in {None, DNS, DNF, T0900, T0930, Remark}}
               \cup {E(NameB, <<q, None, None, None>>, None, None, None) :
                        q \in {DNS, T0900, T0930}}
          [] n = 2 ->
               {E(NameA, <<t, T0900, None, None>>, q, None, None) :
                   t \in {T0900, T0930}, q \in {None, DNS, T0930, T1000}}
               \cup {E(NameB, <<t, T0900, None, None>>, q, None, None) :
                        t \in {T0900, T0930}, q \in {T0930, T1000}}
          [] n = 3 ->
               {E(NameA, <<T0900, T0900, T0900, None>>, T0930, q, None) :
                   q \in {None, DNS, T0930, T1000}}
               \cup {E(NameB, <<T0900, T0900, T0900, None>>, T0930, T0930, None)}
          [] n = 4 ->
               {E(NameA, <<T0900, T0900, T0900, T0900>>, T0930, T0930, q) :
                   q \in {None, DNS, T0930, T1000}}
               \cup {E(NameB, <<T0900, T0900, T0900, T0900>>, T0930, T0930, T0930)}

Feeds(rows) == UNION {[1..n -> rows] : n \in 0..MaxEntries}

Inputs ==
    Feeds(ClassifyEntries) \cup Feeds(ProgressEntries)
        \cup UNION {Feeds(RankEntries(n)) : n \in 1..4}

\* ------------------------------------------------------------------------
\* State
\* ------------------------------------------------------------------------

VARIABLES
    results,    \* results.entry: the rows of the feed, in order
    pc,         \* the function of main() that is running, or "done"
    exception,  \* "" or the exception raised in the function pc names
    i,          \* create_riders: rows of the feed consumed
    riders,     \* riders[sex][group]: the riders of a cohort, in order
    scanned,    \* events_completed: cohorts <<sex, group>> scanned to the end
    cur,        \* events_completed: the cohort being scanned, or NoCohort
    k,          \* events_completed: riders of cur scanned
    count,      \* events_completed: the local count
    events,     \* main: events (the value events_completed returned)
    tables,     \* the SQLite database: table name -> rows in rowid order
    created,    \* create_sql_tables: cohorts whose table is finished
    tname,      \* create_sql_tables: the cohort whose table is in the making
    sqlpc,      \* create_sql_tables: the next statement for that table
    h,          \* create_html_tables: tables rendered
    men,        \* create_html_tables: men
    women,      \* create_html_tables: women
    page        \* html/index.html as create_html writes it, or NoPage

vars == <<results, pc, exception, i, riders, scanned, cur, k, count, events,
          tables, created, tname, sqlpc, h, men, women, page>>

\* count = None and events = None. Python 2 orders None below every number,
\* so None > 1 and None > 2 are False, as NoCount > 1 and NoCount > 2 are.
NoCount == 0
NoCohort == <<>>
NoTable == <<>>
NoPage == <<>>
EmptyFn == [x \in {} |-> <<>>]

Init ==
    /\ results \in Inputs
    /\ pc = "create_riders"
    /\ exception = ""
    /\ i = 0
    /\ riders = [sex \in {MEN, WOMEN} |-> EmptyFn]
    /\ scanned = {}
    /\ cur = NoCohort
    /\ k = 0
    /\ count = NoCount
    /\ events = NoCount
    /\ tables = EmptyFn
    /\ created = {}
    /\ tname = NoTable
    /\ sqlpc = ""
    /\ h = 0
    /\ men = <<>>
    /\ women = <<>>
    /\ page = NoPage

\* ------------------------------------------------------------------------
\* create_riders
\* ------------------------------------------------------------------------

\* lines 122-125: the columns of a row that are result keys
RiderOf(entry) == [key \in DOMAIN entry \cap RESULT_KEYS |-> entry[key]]

\* line 126
IsRider(rider) ==
    Truthy(rider["ridername"]) /\ ~Contains(RIDER_NAME, rider["ridername"])

\* the range of a group without the + 1 of line 129: the last age of the band is lost
AgeRangeShort(group) ==
    LET parts == Split(group, "-")
    IN  IntOf(parts[1]) .. (IntOf(parts[2]) - 1)

\* range(int(group.split('-')[0]), int(group.split('-')[1]) + 1)
AgeRange(group) ==
    LET parts == Split(group, "-")
    IN  IntOf(parts[1]) .. ((IntOf(parts[2]) + 1) - 1)

\* The exception that the tests of lines 126-138 raise for a rider, or "":
\* they read ridername, then gender, then (for gender M or F) age, and call
\* int() on a non-empty age; none of this depends on the group or the age
\* tried, so it happens at the first one, before any append.
RaisedBy(rider) ==
    IF "ridername" \notin DOMAIN rider THEN "KeyError"
    ELSE IF ~IsRider(rider) THEN ""
    ELSE IF "gender" \notin DOMAIN rider THEN "KeyError"
    ELSE IF rider["gender"] \notin {<<"M">>, <<"F">>} THEN ""
    ELSE IF "age" \notin DOMAIN rider THEN "KeyError"
    ELSE IF Truthy(rider["age"]) /\ ~IsIntLiteral(rider["age"]) THEN "ValueError"
    ELSE ""

\* riders[sex][group].append(rider), the list made first when the key is new
AppendRider(rs, sex, group, rider) ==
    [rs EXCEPT ![sex] =
        IF group \in DOMAIN @
            THEN [@ EXCEPT ![group] = Append(@, rider)]
            ELSE @ @@ (group :> <<rider>>)]

\* n times riders[sex][group].append(rider)
RECURSIVE AppendRiderTimes(_, _, _, _, _)
AppendRiderTimes(rs, sex, group, rider, n) ==
    IF n = 0 THEN rs
    ELSE AppendRiderTimes(AppendRider(rs, sex, group, rider), sex, group, rider, n - 1)

\* line 130-131 and lines 137-138: the tests for one age of a range
IsManOfAge(rider, age) ==
    rider["gender"] = <<"M">> /\ Truthy(rider["age"]) /\ IntOf(rider["age"]) = age

IsWomanOfAge(rider, age) ==
    rider["gender"] = <<"F">> /\ Truthy(rider["age"]) /\ IntOf(rider["age"]) = age

\* lines 128-143 for one group: one append to the men for each age of the
\* range that passes the first test, one to the women for each age that
\* fails it and passes the second
PlaceInGroup(rs, rider, group) ==
    LET asMan == {age \in AgeRange(group) : IsManOfAge(rider, age)}
        asWoman == {age \in AgeRange(group) :
                       ~IsManOfAge(rider, age) /\ IsWomanOfAge(rider, age)}
    IN  AppendRiderTimes(
            AppendRiderTimes(rs, MEN, group, rider, Cardinality(asMan)),
            WOMEN, group, rider, Cardinality(asWoman))

\* line 127: the groups from the g-th on, in the order of AGE_GROUPS
RECURSIVE PlaceFrom(_, _, _)
PlaceFrom(rs, rider, g) ==
    IF g > Len(AGE_GROUPS) THEN rs
    ELSE PlaceFrom(PlaceInGroup(rs, rider, AGE_GROUPS[g]), rider, g + 1)

\* one pass of the loop of line 121 that raises nothing
CreateRidersEntry ==
    /\ pc = "create_riders" /\ exception = ""
    /\ i < Len(results)
    /\ LET rider == RiderOf(results[i + 1])
       IN  /\ RaisedBy(rider) = ""
           /\ riders' = IF IsRider(rider) THEN PlaceFrom(riders, rider, 1) ELSE riders
    /\ i' = i + 1
    /\ UNCHANGED <<results, pc, exception, scanned, cur, k, count, events, tables,
                   created, tname, sqlpc, h, men, women, page>>

\* one pass of the loop of line 121 that raises: nothing catches it, the run ends
CreateRidersRaise ==
    /\ pc = "create_riders" /\ exception = ""
    /\ i < Len(results)
    /\ RaisedBy(RiderOf(results[i + 1])) # ""
    /\ exception' = RaisedBy(RiderOf(results[i + 1]))
    /\ UNCHANGED <<results, pc, i, riders, scanned, cur, k, count, events, tables,
                   created, tname, sqlpc, h, men, women, page>>

\* line 144, and line 98 of the call that follows in main
CreateRidersReturn ==
    /\ pc = "create_riders" /\ exception = ""
    /\ i = Len(results)
    /\ pc' = "events_completed"
    /\ count' = NoCount
    /\ UNCHANGED <<results, exception, i, riders, scanned, cur, k, events, tables,
                   created, tname, sqlpc, h, men, women, page>>

\* ------------------------------------------------------------------------
\* events_completed
\* ------------------------------------------------------------------------

\* the keys <<sex, group>> of a nested dictionary of riders
Cohorts(rs) == UNION {{<<sex, group>> : group \in DOMAIN rs[sex]} : sex \in DOMAIN rs}

\* The cohorts "for sex in riders: for group in riders[sex]" may visit next when
\* it has finished those of done: a dictionary yields its keys in an order of
\* its own, and the groups of one sex come before those of the next.
NextCohorts(done) ==
    LET left == Cohorts(riders) \ done
        open == {c \in left : \E d \in done : d[1] = c[1]}
    IN  IF open # {} THEN open ELSE left

\* lines 104-109 without the "not count > ..." tests: the last rider decides
NewCountUnguarded(c, rider) ==
    IF Truthy(rider["tt3results"]) THEN 3
    ELSE IF Truthy(rider["tt2results"]) THEN 2
    ELSE IF Truthy(rider["tt1results"]) THEN 1
    ELSE c

\* lines 104-109
NewCount(c, rider) ==
    IF Truthy(rider["tt3results"]) THEN 3
    ELSE IF Truthy(rider["tt2results"]) /\ ~(c > 2) THEN 2
    ELSE IF Truthy(rider["tt1results"]) /\ ~(c > 1) THEN 1
    ELSE c

\* the cohort and the position in it of the rider the loops of lines 99-101
\* reach next
NextRiders ==
    IF cur # NoCohort THEN {<<cur, k + 1>>}
    ELSE {<<c, 1>> : c \in NextCohorts(scanned)}

\* lines 102-103: the rider has a stage-4 time, return 4
EventsCompletedFour ==
    /\ pc = "events_completed" /\ exception = ""
    /\ \E nx \in NextRiders :
         /\ Truthy(riders[nx[1][1]][nx[1][2]][nx[2]]["tt4results"])
         /\ cur' = nx[1]
         /\ k' = nx[2]
    /\ events' = 4
    /\ pc' = "create_sql_tables"
    /\ UNCHANGED <<results, exception, i, riders, scanned, count, tables, created,
                   tname, sqlpc, h, men, women, page>>

\* lines 102-109 for a rider without a stage-4 time
EventsCompletedRider ==
    /\ pc = "events_completed" /\ exception = ""
    /\ \E nx \in NextRiders :
         LET list == riders[nx[1][1]][nx[1][2]]
             rider == list[nx[2]]
         IN  /\ ~Truthy(rider["tt4results"])
             /\ count' = NewCount(count, rider)
             /\ IF nx[2] = Len(list)
                   THEN scanned' = scanned \cup {nx[1]} /\ cur' = NoCohort /\ k' = 0
                   ELSE scanned' = scanned /\ cur' = nx[1] /\ k' = nx[2]
    /\ UNCHANGED <<results, pc, exception, i, riders, events, tables, created,
                   tname, sqlpc, h, men, women, page>>

\* line 110
EventsCompletedReturn ==
    /\ pc = "events_completed" /\ exception = ""
    /\ NextRiders = {}
    /\ events' = count
    /\ pc' = "create_sql_tables"
    /\ UNCHANGED <<results, exception, i, riders, scanned, cur, k, count, tables,
                   created, tname, sqlpc, h, men, women, page>>

\* ------------------------------------------------------------------------
\* create_sql_tables
\* ------------------------------------------------------------------------

\* the columns of a table, lines 161-164
COLUMNS ==
    << "ridername", "city", "state", "club", "tt1results", "tt2results",
       "tt3results", "tt4results", "cumulative2", "cumulative3", "ttseriestotal" >>

\* the position of a column in a row
ColumnIndex ==
    [name \in {COLUMNS[p] : p \in 1..Len(COLUMNS)} |->
        CHOOSE p \in 1..Len(COLUMNS) : COLUMNS[p] = name]

Col(name) == ColumnIndex[name]

\* line 160
TableName(sex, group) == sex \o <<"_">> \o Replace(group, "-", "_")

\* lines 166-171: the row inserted for a rider
RowOf(rider) == [p \in 1..Len(COLUMNS) |-> rider[COLUMNS[p]]]

\* lines 165-171: the rows inserted for the riders of a list, in order
RowsOf(list) == [n \in 1..Len(list) |-> RowOf(list[n])]

\* a > b as Python 2 orders None and texts: None below every text
PyGT(a, b) == a # None /\ (b = None \/ StrLT(b, a))

\* SQL a > b on text columns: not true when either is NULL, else the byte order
SqlGT(a, b) == a # None /\ b # None /\ StrLT(b, a)

\* SQL a = b: not true when either is NULL
SqlEQ(a, b) == a # None /\ b # None /\ a = b

\* the column the deletes of lines 172-196 read
DeleteColumn(n) ==
    CASE n = 1 -> "tt1results"
      [] n = 2 -> "cumulative2"
      [] n = 3 -> "cumulative3"
      [] n = 4 -> "ttseriestotal"

\* the subquery of the first delete with < for >: a larger same-name row
HasLarger(r, rows, col) ==
    \E n \in 1..Len(rows) :
        /\ r[Col("ridername")] # None /\ r[Col("ridername")] = rows[n][Col("ridername")]
        /\ r[Col(col)] # None /\ rows[n][Col(col)] # None
        /\ StrLT(r[Col(col)], rows[n][Col(col)])

\* where exists (select * from T t2 where T.ridername = t2.ridername and
\* T.col > t2.col), for the row r of T
HasSmaller(r, rows, col) ==
    \E n \in 1..Len(rows) :
        /\ SqlEQ(r[Col("ridername")], rows[n][Col("ridername")])
        /\ SqlGT(r[Col(col)], rows[n][Col(col)])

\* the where clause of the second delete, for the row r of T: lines 176-178
\* at one event; lines 183-184, 189-190 and 195-196 after that, where the
\* subquery ranges over the rows t2 of T and tests the row r of the delete
IsInvalid(r, rows, n) ==
    IF n = 1
        THEN \/ SqlEQ(r[Col("tt1results")], DNS)
             \/ SqlEQ(r[Col("tt1results")], DNF)
             \/ r[Col("tt1results")] = None
        ELSE \E t2 \in 1..Len(rows) : r[Col(DeleteColumn(n))] = None

\* delete from T where ...: the rows that stay, in rowid order. The where
\* clause of every row is decided on the table as it was before the delete
\* (a row with a smaller same-name row keeps having one while the smallest
\* stays, so deleting row by row leaves the same rows).
DeleteDuplicateRows(rows, n) ==
    SelectSeq(rows, LAMBDA r : ~HasSmaller(r, rows, DeleteColumn(n)))

DeleteInvalidRows(rows, n) ==
    SelectSeq(rows, LAMBDA r : ~IsInvalid(r, rows, n))

\* lines 160-171 for the next group of the loops of lines 157-159: create the
\* table and insert the riders; lines 172-196 run no statement unless events
\* is 1, 2, 3 or 4
CreateTable ==
    /\ pc = "create_sql_tables" /\ exception = ""
    /\ tname = NoTable
    /\ \E c \in NextCohorts(created) :
         /\ tables' = tables @@ (TableName(c[1], c[2]) :> RowsOf(riders[c[1]][c[2]]))
         /\ created' = created \cup {c}
         /\ IF events \in 1..4
               THEN tname' = TableName(c[1], c[2]) /\ sqlpc' = "delete_duplicates"
               ELSE tname' = NoTable /\ sqlpc' = ""
    /\ UNCHANGED <<results, pc, exception, i, riders, scanned, cur, k, count, events,
                   h, men, women, page>>

\* the first delete of the branch of events: lines 173-175, 180-182, 186-188, 192-194
DeleteDuplicates ==
    /\ pc = "create_sql_tables" /\ exception = ""
    /\ tname # NoTable /\ sqlpc = "delete_duplicates"
    /\ tables' = [tables EXCEPT ![tname] = DeleteDuplicateRows(@, events)]
    /\ sqlpc' = "delete_invalid"
    /\ UNCHANGED <<results, pc, exception, i, riders, scanned, cur, k, count, events,
                   created, tname, h, men, women, page>>

\* the second delete of the branch of events: lines 176-178, 183-184, 189-190, 195-196
DeleteInvalid ==
    /\ pc = "create_sql_tables" /\ exception = ""
    /\ tname # NoTable /\ sqlpc = "delete_invalid"
    /\ tables' = [tables EXCEPT ![tname] = DeleteInvalidRows(@, events)]
    /\ sqlpc' = ""
    /\ tname' = NoTable
    /\ UNCHANGED <<results, pc, exception, i, riders, scanned, cur, k, count, events,
                   created, h, men, women, page>>

\* lines 198-199
CreateSqlTablesReturn ==
    /\ pc = "create_sql_tables" /\ exception = ""
    /\ tname = NoTable /\ NextCohorts(created) = {}
    /\ pc' = "create_html_tables"
    /\ UNCHANGED <<results, exception, i, riders, scanned, cur, k, count, events,
                   tables, created, tname, sqlpc, h, men, women, page>>

\* ------------------------------------------------------------------------
\* create_html_tables
\* ------------------------------------------------------------------------

\* sorted(S) for a set of texts
RECURSIVE Sorted(_)
Sorted(S) ==
    IF S = {} THEN <<>>
    ELSE LET m == CHOOSE x \in S : \A y \in S : ~StrLT(y, x)
         IN  <<m>> \o Sorted(S \ {m})

\* line 211: the names in sqlite_master, sorted
Tnames == Sorted(DOMAIN tables)

\* lines 214-216: the label of a table
GroupLabel(t) ==
    LET parts == Split(t, "_")
    IN  parts[1] \o <<" ">> \o parts[2] \o <<"-">> \o parts[3]

\* Column Header Names, line 219
chn ==
    << <<"P", "l", "a", "c", "e">>,
       <<"N", "a", "m", "e">>,
       <<"C", "i", "t", "y">>,
       <<"S", "t", ".">>,
       <<"C", "l", "u", "b">>,
       <<"T", "T", " ", "#", "1", " ", "T", "i", "m", "e">>,
       <<"T", "T", " ", "#", "2", " ", "T", "i", "m", "e">>,
       <<"T", "T", " ", "#", "3", " ", "T", "i", "m", "e">>,
       <<"T", "T", " ", "#", "4", " ", "T", "i", "m", "e">>,
       <<"T", "o", "t", "a", "l", " ", "T", "i", "m", "e">> >>

\* Column Header Borders, lines 222-227, by width
chb == [w \in {3, 5, 12, 20, 35} |-> [p \in 1..w |-> "="]]

\* A subscript as the source writes it: an integer, or a string in quotes
IntIx(n) == [int |-> n]
StrIx(s) == [str |-> s]

\* seq[ix] for a list or tuple: an integer subscript counts from 0, a string
\* subscript raises TypeError
IsTypeError(ix) == "str" \in DOMAIN ix
Subscript(seq, ix) == seq[ix.int + 1]

\* lines 233, 252, 272, 292
Width(n) ==
    CASE n = 1 -> 100
      [] n = 2 -> 126
      [] n = 3 -> 139
      [] n = 4 -> 152

\* the widths of the conversions of line: lines 241, 260, 280, 300
LineWidths(n) ==
    CASE n = 1 -> <<5, 20, 20, 3, 35, 12>>
      [] n = 2 -> <<5, 20, 20, 3, 35, 12, 12, 12>>
      [] n = 3 -> <<5, 20, 20, 3, 35, 12, 12, 12, 12>>
      [] n = 4 -> <<5, 20, 20, 3, 35, 12, 12, 12, 12, 12>>

\* the subscripts of chn in the header row: lines 242, 261-262, 281-282, 301-302
HeaderSubscripts(n) ==
    CASE n = 1 -> <<IntIx(0), IntIx(1), IntIx(2), IntIx(3), IntIx(4), IntIx(5)>>
      [] n = 2 -> <<IntIx(0), IntIx(1), IntIx(2), IntIx(3), IntIx(4), IntIx(5),
                    IntIx(6), IntIx(9)>>
      [] n = 3 -> <<IntIx(0), IntIx(1), IntIx(2), IntIx(3), IntIx(4), IntIx(5),
                    IntIx(6), IntIx(7), IntIx(9)>>
      [] n = 4 -> <<IntIx(0), IntIx(1), IntIx(2), IntIx(3), IntIx(4), IntIx(5),
                    IntIx(6), IntIx(7), IntIx(8), StrIx("9")>>

\* the subscripts of rider in a data row, after place + 1: lines 248-249,
\* 268-269, 288-289, 309-311
RowSubscripts(n) ==
    CASE n = 1 -> <<IntIx(0), IntIx(1), IntIx(2), IntIx(3), IntIx(4)>>
      [] n = 2 -> <<IntIx(0), IntIx(1), IntIx(2), IntIx(3), IntIx(4), IntIx(5),
                    IntIx(8)>>
      [] n = 3 -> <<IntIx(0), IntIx(1), IntIx(2), IntIx(3), IntIx(4), IntIx(5),
                    IntIx(6), StrIx("9")>>
      [] n = 4 -> <<IntIx(0), IntIx(1), IntIx(2), IntIx(3), IntIx(4), IntIx(5),
                    IntIx(6), StrIx("7"), StrIx("10")>>

\* line % args: each argument as "%s" gives it, left-justified in its width,
\* with one space between two conversions
RECURSIVE Format(_, _)
Format(widths, args) ==
    IF Len(args) = 0 THEN <<>>
    ELSE IF Len(args) = 1 THEN LJust(Str(args[1]), widths[1])
    ELSE LJust(Str(args[1]), widths[1]) \o <<" ">> \o Format(Tail(widths), Tail(args))

\* select * from T order by col: the orders SQLite may return the rows in,
\* NULL before every text, then ascending byte order, equal keys in any order
OrderBy(rows, col) ==
    LET n == Len(rows)
        key(r) == r[Col(col)]
        le(a, b) == a = None \/ (b # None /\ ~StrLT(b, a))
        perms == {f \in [1..n -> 1..n] : \A x, y \in 1..n : x # y => f[x] # f[y]}
    IN  {[p \in 1..n |-> rows[f[p]]] :
            f \in {g \in perms :
                     \A x, y \in 1..n : x < y => le(key(rows[g[x]]), key(rows[g[y]]))}}

\* the rows the cursor yields in the branch of events (lines 237, 256, 276,
\* 296); no branch runs, and nothing is selected, for another events
Selected(t, n) ==
    IF n \in 1..4 THEN OrderBy(tables[t], "tt1results") ELSE {<<>>}

\* whether lines 232-312 raise TypeError for a table whose cursor yields rows:
\* in the header row, or in the first data row
RenderRaises(n, rows) ==
    /\ n \in 1..4
    /\ \/ \E p \in 1..Len(HeaderSubscripts(n)) : IsTypeError(HeaderSubscripts(n)[p])
       \/ /\ rows # <<>>
          /\ \E p \in 1..Len(RowSubscripts(n)) : IsTypeError(RowSubscripts(n)[p])

\* lines 231-312: the div of a table, as its id and the lines of its pre
\* block (the "last updated" and contact lines of 313-314 are left out)
Render(t, n, rows) ==
    [id |-> t,
     lines |->
        IF n \in 1..4
            THEN << Center(HEADER, Width(n)),
                    Center(GroupLabel(t), Width(n)),
                    <<>>,
                    Format(LineWidths(n),
                           [p \in 1..Len(HeaderSubscripts(n)) |->
                               Subscript(chn, HeaderSubscripts(n)[p])]),
                    Format(LineWidths(n),
                           [p \in 1..Len(LineWidths(n)) |-> chb[LineWidths(n)[p]]]) >>
                 \o [place \in 1..Len(rows) |->
                        Format(LineWidths(n),
                               <<IntStr((place - 1) + 1)>>
                                   \o [p \in 1..Len(RowSubscripts(n)) |->
                                          Subscript(rows[place], RowSubscripts(n)[p])])]
            ELSE <<>>]

\* one pass of the loop of line 230 that raises nothing
CreateHtmlTable ==
    /\ pc = "create_html_tables" /\ exception = ""
    /\ h < Len(Tnames)
    /\ LET t == Tnames[h + 1]
       IN  \E rows \in Selected(t, events) :
             /\ ~RenderRaises(events, rows)
             /\ men' = IF StartsWith(t, <<"M">>)
                           THEN Append(men, Render(t, events, rows)) ELSE men
             /\ women' = IF ~StartsWith(t, <<"M">>) /\ StartsWith(t, <<"W">>)
                             THEN Append(women, Render(t, events, rows)) ELSE women
    /\ h' = h + 1
    /\ UNCHANGED <<results, pc, exception, i, riders, scanned, cur, k, count, events,
                   tables, created, tname, sqlpc, page>>

\* one pass of the loop of line 230 that raises TypeError: nothing catches it
CreateHtmlTableRaise ==
    /\ pc = "create_html_tables" /\ exception = ""
    /\ h < Len(Tnames)
    /\ \E rows \in Selected(Tnames[h + 1], events) : RenderRaises(events, rows)
    /\ exception' = "TypeError"
    /\ UNCHANGED <<results, pc, i, riders, scanned, cur, k, count, events, tables,
                   created, tname, sqlpc, h, men, women, page>>

\* lines 319-320
CreateHtmlTablesReturn ==
    /\ pc = "create_html_tables" /\ exception = ""
    /\ h = Len(Tnames)
    /\ pc' = "create_html"
    /\ UNCHANGED <<results, exception, i, riders, scanned, cur, k, count, events,
                   tables, created, tname, sqlpc, h, men, women, page>>

\* ------------------------------------------------------------------------
\* create_html
\* ------------------------------------------------------------------------

\* lines 369-374, 382-387: the tab of a table, its href and its caption
Tab(mkup) ==
    LET hrefid == mkup.id
        ages == Tail(Split(hrefid, "_"))
    IN  [href |-> hrefid, span |-> ages[1] \o <<"-">> \o ages[2]]

\* lines 368-403: the page written to html/index.html: the tabs and the
\* tables of the men, then those of the women
CreateHtml ==
    /\ pc = "create_html" /\ exception = ""
    /\ page' = << [li |-> [p \in 1..Len(men) |-> Tab(men[p])], tables |-> men],
                  [li |-> [p \in 1..Len(women) |-> Tab(women[p])], tables |-> women] >>
    /\ pc' = "done"
    /\ UNCHANGED <<results, exception, i, riders, scanned, cur, k, count, events,
                   tables, created, tname, sqlpc, h, men, women>>

\* ------------------------------------------------------------------------
\* main, lines 438-451
\* ------------------------------------------------------------------------

Next ==
    \/ CreateRidersEntry
    \/ CreateRidersRaise
    \/ CreateRidersReturn
    \/ EventsCompletedFour
    \/ EventsCompletedRider
    \/ EventsCompletedReturn
    \/ CreateTable
    \/ DeleteDuplicates
    \/ DeleteInvalid
    \/ CreateSqlTablesReturn
    \/ CreateHtmlTable
    \/ CreateHtmlTableRaise
    \/ CreateHtmlTablesReturn
    \/ CreateHtml

Spec == Init /\ [][Next]_vars

\* ------------------------------------------------------------------------
\* Properties
\* ------------------------------------------------------------------------

StageKeys == <<"tt1results", "tt2results", "tt3results", "tt4results">>

\* the riders of the cohorts of a set
RidersOf(cs) == UNION {{riders[c[1]][c[2]][n] : n \in 1..Len(riders[c[1]][c[2]])} : c \in cs}

\* the riders events_completed has looked at
ScannedRiders ==
    RidersOf(scanned)
        \cup (IF cur = NoCohort THEN {} ELSE {riders[cur[1]][cur[2]][n] : n \in 1..k})

\* the largest stage some rider of R has a non-empty time for, NoCount if none
HighestStage(R) ==
    LET held == {n \in 1..4 : \E r \in R : Truthy(r[StageKeys[n]])}
    IN  IF held = {} THEN NoCount ELSE CHOOSE n \in held : \A m \in held : m <= n

AfterEventsCompleted == pc \notin {"create_riders", "events_completed"}

\* C1: events_completed returns the largest stage for which some classified
\* rider has a non-empty time, in whatever order the cohorts are scanned: while
\* it scans, count is the largest stage of the riders scanned so far (so it
\* never decreases) and none of them has a stage-4 time; it returns 4 at the
\* first rider met that has one.
C1_EventsCompletedIsHighestStage ==
    /\ pc = "events_completed" =>
          /\ count = HighestStage(ScannedRiders)
          /\ \A r \in ScannedRiders : ~Truthy(r["tt4results"])
    /\ AfterEventsCompleted =>
          /\ events = HighestStage(RidersOf(Cohorts(riders)))
          /\ events = 4 =>
                /\ cur # NoCohort
                /\ Truthy(riders[cur[1]][cur[2]][k]["tt4results"])
                /\ \A r \in RidersOf(scanned) : ~Truthy(r["tt4results"])
                /\ \A n \in 1..(k - 1) : ~Truthy(riders[cur[1]][cur[2]][n]["tt4results"])

\* C1 witness: two cohorts were scanned, one rider has a stage-3 time, another
\* has earlier times only, and 3 was returned
C1_Witness ==
    /\ pc = "create_sql_tables" /\ events = 3
    /\ Cardinality(scanned) = 2
    /\ \E r \in RidersOf(scanned) :
         /\ Truthy(r["tt1results"]) \/ Truthy(r["tt2results"])
         /\ ~Truthy(r["tt3results"])

\* the tables create_sql_tables has finished: the leaderboards
Leaderboards == {t \in DOMAIN tables : t # tname}

\* the cohorts whose table is finished
RankedCohorts == {c \in created : TableName(c[1], c[2]) # tname}

\* whether a qualifying value is present and no sentinel
IsResult(v) == v \notin {None, DNS, DNF}

\* C2: at every stage a leaderboard holds at most one record per rider name
\* (of records of one name that tie on the qualifying value only the first
\* stays). Stated of the records whose qualifying value is a result, which
\* no sentinel left in a leaderboard can break.
C2_OneRecordPerName ==
    events \in 1..4 =>
        \A t \in Leaderboards :
            \A p, q \in 1..Len(tables[t]) :
                (/\ tables[t][p][Col("ridername")] = tables[t][q][Col("ridername")]
                 /\ IsResult(tables[t][p][Col(DeleteColumn(events))])
                 /\ IsResult(tables[t][q][Col(DeleteColumn(events))])) => p = q

\* C3: at every stage no record of a leaderboard has a qualifying field that
\* is missing, "DNS" or "DNF".
C3_NoSentinelInLeaderboard ==
    events \in 1..4 =>
        \A t \in Leaderboards :
            \A p \in 1..Len(tables[t]) :
                tables[t][p][Col(DeleteColumn(events))] \notin {None, DNS, DNF}

\* the tables rendered so far
Rendered == {men[p] : p \in 1..Len(men)} \cup {women[p] : p \in 1..Len(women)}

\* the data rows of a rendered table: the lines after the title, the label,
\* the empty line, the column names and the border
DataRows(tb) == SubSeq(tb.lines, 6, Len(tb.lines))

\* the last column of a data row, 12 wide
LastColumn(line) == SubSeq(line, Len(line) - 11, Len(line))

\* the place column of a data row, 5 wide
PlaceColumn(line) == SubSeq(line, 1, 5)

\* the stage-1 time column of a data row, the sixth, 12 wide
Stage1Column(line) == SubSeq(line, 89, 100)

\* C4: at every stage the rows of a rendered leaderboard are in ascending
\* order of the stage's qualifying field, which is the last column of the
\* row. Stated of two rows that follow each other, both show a time (which
\* no sentinel left in a leaderboard can break) and differ in the stage-1
\* time (so that the order of rows with equal sort keys plays no part).
C4_RowsAscendingByQualifier ==
    events \in 1..4 =>
        \A tb \in Rendered :
            \A p \in 1..(Len(DataRows(tb)) - 1) :
                (/\ LastColumn(DataRows(tb)[p])[1] \in Digits
                 /\ LastColumn(DataRows(tb)[p + 1])[1] \in Digits
                 /\ Stage1Column(DataRows(tb)[p]) # Stage1Column(DataRows(tb)[p + 1]))
                    => ~StrLT(LastColumn(DataRows(tb)[p + 1]), LastColumn(DataRows(tb)[p]))

\* a < b for two present values
Smaller(a, b) == a # None /\ b # None /\ StrLT(a, b)

\* the tables whose first delete has run
Deduplicated == {c \in created : TableName(c[1], c[2]) # tname \/ sqlpc = "delete_invalid"}

\* C5: at every stage, no record that survives deduplication has a record of
\* the same name in the original cohort with a strictly smaller present
\* qualifying value.
C5_SurvivorIsSmallest ==
    events \in 1..4 =>
        \A c \in Deduplicated :
            LET t == TableName(c[1], c[2])
                q == DeleteColumn(events)
            IN  \A p \in 1..Len(tables[t]) :
                    \A n \in 1..Len(riders[c[1]][c[2]]) :
                        riders[c[1]][c[2]][n]["ridername"] = tables[t][p][Col("ridername")]
                            => ~Smaller(riders[c[1]][c[2]][n][q], tables[t][p][Col(q)])

\* C5 witness: a finished leaderboard holds a record whose rider has a slower
\* record in the cohort
C5_Witness ==
    /\ events \in 1..4
    /\ \E c \in RankedCohorts :
         LET t == TableName(c[1], c[2])
             q == DeleteColumn(events)
         IN  \E p \in 1..Len(tables[t]) :
                 \E n \in 1..Len(riders[c[1]][c[2]]) :
                     /\ riders[c[1]][c[2]][n]["ridername"] = tables[t][p][Col("ridername")]
                     /\ Smaller(tables[t][p][Col(q)], riders[c[1]][c[2]][n][q])

\* the age bands: 10-14, 15-19, ..., 95-99
Bands == {<<10 + 5 * j, 14 + 5 * j>> : j \in 0..17}

BandText(b) == IntStr(b[1]) \o <<"-">> \o IntStr(b[2])

SexOf(letter) == IF letter = <<"M">> THEN MEN ELSE WOMEN

\* the cohorts a row of the feed belongs to: that of its gender and of the
\* band that holds its age, when its name is no header
CohortsOf(entry) ==
    IF /\ entry["ridername"] \notin {None, <<>>}
       /\ ~Contains(RIDER_NAME, entry["ridername"])
       /\ "gender" \in DOMAIN entry /\ entry["gender"] \in {<<"M">>, <<"F">>}
       /\ "age" \in DOMAIN entry /\ entry["age"] \notin {None, <<>>}
       /\ IsIntLiteral(entry["age"])
        THEN {<<SexOf(entry["gender"]), BandText(b)>> :
                 b \in {d \in Bands : d[1] <= IntOf(entry["age"])
                                         /\ IntOf(entry["age"]) <= d[2]}}
        ELSE {}

\* C6: in create_riders and at its return (riders does not change after it)
\* the rows consumed so far are classified: a row with a name that is no
\* header, gender M or F and an age in a band is in the cohort of that gender
\* and band and in no other, once, the cohort keeping the order of the feed;
\* rows of another age, gender or name are in no cohort; and a cohort exists
\* only if a row was placed in it.
C6_ClassifiedIntoExactlyOneCohort ==
    LET seen == SubSeq(results, 1, i)
    IN  pc \in {"create_riders", "events_completed"} =>
        /\ \A n \in 1..Len(seen) : Cardinality(CohortsOf(seen[n])) <= 1
        /\ \A c \in Cohorts(riders) \cup UNION {CohortsOf(seen[n]) : n \in 1..Len(seen)} :
              LET want == SelectSeq(seen, LAMBDA e : c \in CohortsOf(e))
              IN  /\ want # <<>>
                  /\ c \in Cohorts(riders)
                  /\ riders[c[1]][c[2]] = [n \in 1..Len(want) |-> RiderOf(want[n])]

\* C6 witness: create_riders returned; two men of 14 and 15 are in the two
\* cohorts 10-14 and 15-19
C6_Witness ==
    /\ pc = "events_completed"
    /\ DOMAIN riders[MEN] = {AGE_GROUPS[1], AGE_GROUPS[2]}
    /\ DOMAIN riders[WOMEN] = {}

\* C7: when no classified rider has any stage time, no table is produced for
\* any cohort.
C7_NoTablesWhenUndetermined ==
    (AfterEventsCompleted /\ HighestStage(RidersOf(Cohorts(riders))) = NoCount)
        => men = <<>> /\ women = <<>>

\* C8: a malformed row never aborts the classification: create_riders raises nothing.
C8_MalformedRowNeverAborts ==
    ~(pc = "create_riders" /\ exception # "")

\* C9: at every stage rendering raises nothing, and a rendered leaderboard of
\* k records has the title, the label, the column names and the border, then
\* k data rows with the places 1..k.
C9_RenderingCompletes ==
    events \in 1..4 =>
        /\ ~(pc = "create_html_tables" /\ exception # "")
        /\ \A tb \in Rendered :
              /\ Len(tb.lines) = 5 + Len(tables[tb.id])
              /\ \A p \in 1..Len(DataRows(tb)) :
                    PlaceColumn(DataRows(tb)[p]) = LJust(IntStr(p), 5)

\* whether every present stage-1 time of the rows is "DNS", "DNF" or begins
\* with a digit
TimesOrSentinels(rows) ==
    \A n \in 1..Len(rows) :
        LET v == rows[n][Col("tt1results")]
        IN  v = None \/ v \in {DNS, DNF} \/ (v # <<>> /\ v[1] \in Digits)

\* the pipeline of the design: drop the rows without a valid value, then
\* keep for each name the rows with the smallest value
FilterThenDeduplicate(rows, col) ==
    LET valid == SelectSeq(rows, LAMBDA r : r[Col(col)] \notin {None, DNS, DNF})
    IN  SelectSeq(valid,
                  LAMBDA r : ~\E n \in 1..Len(valid) :
                                 /\ valid[n][Col("ridername")] = r[Col("ridername")]
                                 /\ StrLT(valid[n][Col(col)], r[Col(col)]))

\* C10: at stage 1, for a cohort whose present stage-1 values are "DNS", "DNF"
\* or times beginning with a digit, the two deletes in the code's order leave
\* the records that filtering first and deduplicating second leave.
C10_DeletesMatchFilterThenDeduplicate ==
    events = 1 =>
        \A c \in RankedCohorts :
            TimesOrSentinels(RowsOf(riders[c[1]][c[2]])) =>
                tables[TableName(c[1], c[2])]
                    = FilterThenDeduplicate(RowsOf(riders[c[1]][c[2]]), "tt1results")

\* C10 witness: a rider of a ranked cohort has a valid time and a record
\* without one (null or a sentinel), and the time is in the leaderboard
C10_Witness ==
    /\ events = 1
    /\ \E c \in RankedCohorts :
         LET list == riders[c[1]][c[2]]
             t == TableName(c[1], c[2])
         IN  /\ TimesOrSentinels(RowsOf(list))
             /\ \E m, n \in 1..Len(list) :
                  /\ list[m]["ridername"] = list[n]["ridername"]
                  /\ list[m]["tt1results"] \in {None, DNS, DNF}
                  /\ list[n]["tt1results"] \notin {None, DNS, DNF}
                  /\ \E p \in 1..Len(tables[t]) : tables[t][p] = RowOf(list[n])

====
